---- MODULE Spec2Model ----
(***************************************************************************)
(* Recipe API: accounts, recipes with nested tags and ingredients, and the *)
(* CRUD endpoints over them.  The database is one record `db` holding the   *)
(* tables and their id sequences; `last` is the last request handled and    *)
(* the response it got.                                                     *)
(***************************************************************************)
EXTENDS Integers, Sequences, FiniteSets, TLC

\* ---------------------------------------------------------------- bounds
\* Highest recipe / tag / ingredient id the sequences hand out.
MaxRecipes == 2
MaxTags == 3
MaxIngredients == 2
\* Requests that change the database in one behaviour (reads are not counted).
MaxWrites == 4
\* Accounts in the user table.
MaxUsers == 2

\* Emails are sequences of characters, so that normalize_email can split them at
\* '@' and lowercase the domain as the code does.
Emails == {<<"a", "@", "x">>, <<"b", "@", "x">>}
NoEmail == <<>>
\* Credentials a request can carry: the token of an account (named by its
\* email), no Authorization header, or a token that matches no account.
NoToken == <<>>
BadToken == <<"?">>
Creds == Emails \cup {NoToken, BadToken}

Names == {"a", "b"}
Blank == ""
Titles == {"t1", "t2"}
ProfileNames == {"n1", "n2"}
GoodPassword == "pass1"
ShortPassword == "pw"
WrongPassword == "pass2"

VARIABLES db, last, writes, inflight

vars == <<db, last, writes, inflight>>

\* ---------------------------------------------------------------- helpers
Range(s) == {s[i] : i \in DOMAIN s}

\* int(str): defined on the decimal strings, a ValueError on anything else.
IntOf == [s \in {"0", "1", "2", "3", "4"} |->
            CASE s = "0" -> 0 [] s = "1" -> 1 [] s = "2" -> 2
              [] s = "3" -> 3 [] s = "4" -> 4]

IsInt(s) == s \in DOMAIN IntOf

\* ---------------------------------------------------------------- models
\* The tables of core.models: rows are records, the many-to-many fields are
\* link tables of <<recipe id, tag id>> and <<recipe id, ingredient id>>.
EmptyDb ==
    [user |-> {}, recipe |-> {}, tag |-> {}, ingredient |-> {},
     recipe_tags |-> {}, recipe_ingredients |-> {},
     recipe_seq |-> 1, tag_seq |-> 1, ingredient_seq |-> 1]

\* password=None, the default of create_user.
None == "<None>"

\* set_password stores a salted hash, modelled as a tagged value;
\* set_password(None) stores an unusable password that no raw password matches.

make_password(raw) == IF raw = None THEN "!" ELSE "hash$" \o raw

check_password(raw, stored) == raw # None /\ stored = make_password(raw)

RecipeRow(id, user, title) ==
    [id |-> id, user |-> user, title |-> title, image |-> FALSE]

AttrRow(id, user, name) == [id |-> id, user |-> user, name |-> name]

\* user.delete() with the foreign keys declared on_delete=DO_NOTHING: the user
\* row alone goes.
User_delete_do_nothing(d, email) == [d EXCEPT !.user = {u \in @ : u.email # email}]

\* user.delete(): Recipe.user, Tag.user and Ingredient.user are declared
\* on_delete=CASCADE, so the rows of that user go with it; the rows of the two
\* many-to-many tables go with the recipe, tag or ingredient they point to.
User_delete(d, email) ==
    LET recipes     == {x \in d.recipe : x.user # email}
        tags        == {x \in d.tag : x.user # email}
        ingredients == {x \in d.ingredient : x.user # email}
    IN  [d EXCEPT !.user = {u \in @ : u.email # email},
                  !.recipe = recipes,
                  !.tag = tags,
                  !.ingredient = ingredients,
                  !.recipe_tags =
                      {l \in @ : /\ l[1] \in {x.id : x \in recipes}
                                 /\ l[2] \in {x.id : x \in tags}},
                  !.recipe_ingredients =
                      {l \in @ : /\ l[1] \in {x.id : x \in recipes}
                                 /\ l[2] \in {x.id : x \in ingredients}}]

\* ---------------------------------------------------------------- serializers
\* get_or_create(name=..) without user=auth_user: rows of any user match.
get_or_create_any_user(rows, seq, user, name) ==
    LET found == {r \in rows : r.name = name}
    IN  IF found = {} THEN [ok |-> TRUE, id |-> seq, rows |-> rows \cup {AttrRow(seq, user, name)},
                            seq |-> seq + 1]
        ELSE IF Cardinality(found) = 1
        THEN [ok |-> TRUE, id |-> (CHOOSE r \in found : TRUE).id, rows |-> rows, seq |-> seq]
        ELSE [ok |-> FALSE, id |-> 0, rows |-> rows, seq |-> seq]

\* Manager.get_or_create(user=.., name=..): the one matching row, a new row when
\* none matches, MultipleObjectsReturned (ok = FALSE) when several match.
get_or_create(rows, seq, user, name) ==
    LET found == {r \in rows : r.user = user /\ r.name = name}
    IN  IF found = {}
        THEN [ok |-> TRUE, id |-> seq, rows |-> rows \cup {AttrRow(seq, user, name)},
              seq |-> seq + 1]
        ELSE IF Cardinality(found) = 1
        THEN [ok |-> TRUE, id |-> (CHOOSE r \in found : TRUE).id, rows |-> rows,
              seq |-> seq]
        ELSE [ok |-> FALSE, id |-> 0, rows |-> rows, seq |-> seq]

\* The loop `for x in data: obj, _ = get_or_create(..); recipe.<field>.add(obj)`
\* from entry i on.  Every write is committed as it is made: an exception leaves
\* what the earlier iterations wrote.
RECURSIVE get_or_create_each(_, _, _, _, _, _, _)
get_or_create_each(rows, links, seq, user, rid, data, i) ==
    IF i > Len(data)
    THEN [ok |-> TRUE, rows |-> rows, links |-> links, seq |-> seq]
    ELSE LET g == get_or_create(rows, seq, user, data[i])
         IN  IF ~g.ok
             THEN [ok |-> FALSE, rows |-> rows, links |-> links, seq |-> seq]
             ELSE get_or_create_each(g.rows, links \cup {<<rid, g.id>>}, g.seq,
                                     user, rid, data, i + 1)

\* The tag loop written inline in RecipeSerializer.create.
create_tags(d, user, rid, data) ==
    LET g == get_or_create_each(d.tag, d.recipe_tags, d.tag_seq, user, rid, data, 1)
    IN  [ok |-> g.ok,
         db |-> [d EXCEPT !.tag = g.rows, !.recipe_tags = g.links, !.tag_seq = g.seq]]

_create_or_update_tags(d, user, rid, data) ==
    LET g == get_or_create_each(d.tag, d.recipe_tags, d.tag_seq, user, rid, data, 1)
    IN  [ok |-> g.ok,
         db |-> [d EXCEPT !.tag = g.rows, !.recipe_tags = g.links, !.tag_seq = g.seq]]

_get_or_create_ingredients(d, user, rid, data) ==
    LET g == get_or_create_each(d.ingredient, d.recipe_ingredients, d.ingredient_seq,
                                user, rid, data, 1)
    IN  [ok |-> g.ok,
         db |-> [d EXCEPT !.ingredient = g.rows, !.recipe_ingredients = g.links,
                          !.ingredient_seq = g.seq]]

\* clear() that removes nothing.
clear_nothing(links, rid) == links

\* recipe.tags.clear() / recipe.ingredients.clear(): the recipe's link rows go,
\* the Tag / Ingredient rows stay.
clear(links, rid) == {l \in links : l[1] # rid}

\* ModelSerializer.update for the scalar fields: setattr for each key given, save.
ModelSerializer_update(d, rid, r) ==
    [d EXCEPT !.recipe =
        {IF x.id = rid /\ r.hasTitle THEN [x EXCEPT !.title = r.title] ELSE x : x \in @}]

\* RecipeSerializer.create: insert the Recipe, then the tags, then the ingredients.
RecipeSerializer_create(d, user, r) ==
    LET rid == d.recipe_seq
        d1  == [d EXCEPT !.recipe = @ \cup {RecipeRow(rid, user, r.title)},
                         !.recipe_seq = @ + 1]
        t   == create_tags(d1, user, rid, r.tags)
    IN  IF ~t.ok THEN [ok |-> FALSE, db |-> t.db]
        ELSE _get_or_create_ingredients(t.db, user, rid, r.ingredients)

\* RecipeSerializer.update: a key that is present replaces the association set.
RecipeSerializer_update(d, user, rid, r) ==
    LET t == IF r.hasTags
             THEN _create_or_update_tags(
                      [d EXCEPT !.recipe_tags = clear(@, rid)], user, rid, r.tags)
             ELSE [ok |-> TRUE, db |-> d]
        g == IF r.hasIngredients
             THEN _get_or_create_ingredients(
                      [t.db EXCEPT !.recipe_ingredients = clear(@, rid)], user, rid,
                      r.ingredients)
             ELSE [ok |-> TRUE, db |-> t.db]
    IN  IF ~t.ok THEN [ok |-> FALSE, db |-> t.db]
        ELSE IF ~g.ok THEN [ok |-> FALSE, db |-> g.db]
        ELSE [ok |-> TRUE, db |-> ModelSerializer_update(g.db, rid, r)]

\* A name field declared with allow_blank.
name_is_valid_allow_blank(name) == TRUE

\* CharField of a model field without blank=True: the empty string is rejected.
name_is_valid(name) == name # Blank

\* is_valid() that does not descend into the nested lists.
RecipeSerializer_is_valid_flat(r) == r.partial \/ r.hasTitle

\* RecipeSerializer(...).is_valid(): title is required unless the update is
\* partial; every nested {name} is validated by TagSerializer / IngredientSerializer.
RecipeSerializer_is_valid(r) ==
    /\ r.partial \/ r.hasTitle
    /\ \A i \in DOMAIN r.tags : name_is_valid(r.tags[i])
    /\ \A i \in DOMAIN r.ingredients : name_is_valid(r.ingredients[i])

\* ---------------------------------------------------------------- requests
\* A request: the route (op), the credential, the id in the URL, the query
\* parameters and the payload.  hasX tells whether key x is in the payload.
Request(op, cred) ==
    [op |-> op, cred |-> cred, id |-> 0, partial |-> FALSE,
     hasTitle |-> FALSE, title |-> "",
     hasTags |-> FALSE, tags |-> <<>>,
     hasIngredients |-> FALSE, ingredients |-> <<>>,
     hasName |-> FALSE, name |-> "",
     tagsParam |-> <<>>, ingredientsParam |-> <<>>, assigned_only |-> <<>>,
     hasImage |-> FALSE, image |-> "", hasEmail |-> FALSE, email |-> NoEmail, hasPassword |-> FALSE, password |-> ""]

Response(d, status, body) == [db |-> d, status |-> status, body |-> body]

\* ---------------------------------------------------------------- views
\* permission_classes = [AllowAny].
IsAuthenticated_allow_any(d, cred) == TRUE

\* TokenAuthentication + IsAuthenticated: the credential must be the token of
\* an existing account; anything else is answered 401 before the handler runs.
IsAuthenticated(d, cred) == cred \in {u.email : u \in d.user}

\* RecipeViewSet._params_to_ints: int() of every element of qs.split(',').
_params_to_ints(qs) == [i \in DOMAIN qs |-> IntOf[qs[i]]]

params_are_ints(qs) == \A i \in DOMAIN qs : IsInt(qs[i])

\* Rows a filter on a many-to-many relation yields for one recipe: one per link
\* of the recipe to an id of the list (the JOIN), one when there is no filter.
JoinRows(links, rid, qs) ==
    IF qs = <<>> THEN 1
    ELSE Cardinality({l \in links : l[1] = rid /\ l[2] \in Range(_params_to_ints(qs))})

\* The queryset without .distinct(): one row per joined row.
distinct_missing(count) == count

\* QuerySet.distinct(): every row once.
distinct(count) == [x \in DOMAIN count |-> IF count[x] > 0 THEN 1 ELSE 0]

RECURSIVE Repeat(_, _)
Repeat(x, n) == IF n = 0 THEN <<>> ELSE <<x>> \o Repeat(x, n - 1)

\* order_by('id'): the rows in insertion order, from id 1 up to n.
RECURSIVE order_by_asc_id(_, _)
order_by_asc_id(count, n) ==
    IF n = 0 THEN <<>>
    ELSE order_by_asc_id(count, n - 1)
             \o (IF n \in DOMAIN count THEN Repeat(n, count[n]) ELSE <<>>)

\* order_by('-id') of a result given as id -> number of rows, from id n down.
RECURSIVE order_by_desc_id(_, _)
order_by_desc_id(count, n) ==
    IF n = 0 THEN <<>>
    ELSE (IF n \in DOMAIN count THEN Repeat(n, count[n]) ELSE <<>>)
             \o order_by_desc_id(count, n - 1)

\* get_queryset without filter(user=self.request.user).
RecipeViewSet_get_queryset_unscoped(d, user, tagsParam, ingredientsParam) ==
    LET ids   == {x.id : x \in d.recipe}
        count == [i \in ids |->
                    JoinRows(d.recipe_tags, i, tagsParam)
                      * JoinRows(d.recipe_ingredients, i, ingredientsParam)]
    IN  order_by_desc_id(distinct(count), d.recipe_seq)

\* RecipeViewSet.get_queryset: the ids of the rows, in order.
RecipeViewSet_get_queryset(d, user, tagsParam, ingredientsParam) ==
    LET ids   == {x.id : x \in d.recipe}
        owner == [i \in ids |-> (CHOOSE x \in d.recipe : x.id = i).user]
        count == [i \in ids |->
                    IF owner[i] = user
                    THEN JoinRows(d.recipe_tags, i, tagsParam)
                           * JoinRows(d.recipe_ingredients, i, ingredientsParam)
                    ELSE 0]
    IN  order_by_desc_id(distinct(count), d.recipe_seq)

\* Position of a name in the collation order_by('-name') sorts by.
NameRank(name) == CASE name = "a" -> 1 [] name = "b" -> 2 [] OTHER -> 0

\* order_by('-name'): every order of the rows with names descending; rows of
\* equal name come in an order the database is free to choose.
RECURSIVE order_by_desc_name(_, _)
order_by_desc_name(rows, count) ==
    LET live == {x \in rows : count[x.id] > 0}
        top  == {x \in live : \A y \in live : NameRank(y.name) <= NameRank(x.name)}
    IN  IF live = {} THEN {<<>>}
        ELSE UNION {{<<x.id>> \o rest :
                        rest \in order_by_desc_name(
                                     rows, [count EXCEPT ![x.id] = @ - 1])} :
                    x \in top}

LinksOf(kind) == IF kind = "tag" THEN "recipe_tags" ELSE "recipe_ingredients"

\* get_queryset without filter(user=self.request.user).
BaseRecipeAttrViewSet_get_queryset_unscoped(d, kind, user, assigned_only) ==
    LET count == [i \in {x.id : x \in d[kind]} |->
                    IF assigned_only
                    THEN Cardinality({l \in d[LinksOf(kind)] : l[2] = i})
                    ELSE 1]
    IN  distinct(count)

\* BaseRecipeAttrViewSet.get_queryset before the ordering: id -> number of rows.
\* filter(recipe__isnull=False) joins the link table: one row per recipe.
BaseRecipeAttrViewSet_get_queryset(d, kind, user, assigned_only) ==
    LET count == [i \in {x.id : x \in d[kind]} |->
                    IF (CHOOSE x \in d[kind] : x.id = i).user # user THEN 0
                    ELSE IF assigned_only
                    THEN Cardinality({l \in d[LinksOf(kind)] : l[2] = i})
                    ELSE 1]
    IN  distinct(count)

\* bool(int(query_params.get('assigned_only', 0)))
assigned_only_is_int(qs) == qs = <<>> \/ (Len(qs) = 1 /\ IsInt(qs[1]))

\* assigned_only read as 0 whatever its value.
assigned_only_value_ignored(qs) == FALSE

assigned_only_value(qs) == qs # <<>> /\ IntOf[qs[1]] # 0

\* GenericAPIView.get_object on the recipe queryset: the row of that id, or 404.
recipe_get_object(d, user, id) ==
    id \in Range(RecipeViewSet_get_queryset(d, user, <<>>, <<>>))

attr_get_object(d, kind, user, id) ==
    LET count == BaseRecipeAttrViewSet_get_queryset(d, kind, user, FALSE)
    IN  id \in DOMAIN count /\ count[id] > 0

\* GET /recipes
RecipeViewSet_list(d, r) ==
    IF ~IsAuthenticated(d, r.cred) THEN Response(d, 401, <<>>)
    ELSE IF ~(params_are_ints(r.tagsParam) /\ params_are_ints(r.ingredientsParam))
    THEN Response(d, 500, <<>>)
    ELSE Response(d, 200,
             RecipeViewSet_get_queryset(d, r.cred, r.tagsParam, r.ingredientsParam))

\* POST /recipes: perform_create saves with user = request.user.
RecipeViewSet_create(d, r) ==
    IF ~IsAuthenticated(d, r.cred) THEN Response(d, 401, <<>>)
    ELSE IF ~RecipeSerializer_is_valid(r) THEN Response(d, 400, <<>>)
    ELSE LET c == RecipeSerializer_create(d, r.cred, r)
         IN  IF c.ok THEN Response(c.db, 201, <<d.recipe_seq>>)
             ELSE Response(c.db, 500, <<>>)

\* GET /recipes/{id}
RecipeViewSet_retrieve(d, r) ==
    IF ~IsAuthenticated(d, r.cred) THEN Response(d, 401, <<>>)
    ELSE IF ~recipe_get_object(d, r.cred, r.id) THEN Response(d, 404, <<>>)
    ELSE Response(d, 200, <<r.id>>)

\* PUT / PATCH /recipes/{id}
RecipeViewSet_update(d, r) ==
    IF ~IsAuthenticated(d, r.cred) THEN Response(d, 401, <<>>)
    ELSE IF ~recipe_get_object(d, r.cred, r.id) THEN Response(d, 404, <<>>)
    ELSE IF ~RecipeSerializer_is_valid(r) THEN Response(d, 400, <<>>)
    ELSE LET c == RecipeSerializer_update(d, r.cred, r.id, r)
         IN  IF c.ok THEN Response(c.db, 200, <<r.id>>)
             ELSE Response(c.db, 500, <<>>)

\* DELETE /recipes/{id}: the row and its link rows go.
RecipeViewSet_destroy(d, r) ==
    IF ~IsAuthenticated(d, r.cred) THEN Response(d, 401, <<>>)
    ELSE IF ~recipe_get_object(d, r.cred, r.id) THEN Response(d, 404, <<>>)
    ELSE Response([d EXCEPT !.recipe = {x \in @ : x.id # r.id},
                            !.recipe_tags = clear(@, r.id),
                            !.recipe_ingredients = clear(@, r.id)], 204, <<>>)

\* RecipeImageSerializer(recipe, data).is_valid(): image is required; the model
\* field has null=True, so the serializer field allows null and an empty form
\* value is read as None and accepted; any other value must be an image file.
RecipeImageSerializer_is_valid(r) == r.hasImage /\ r.image \in {"image", ""}

\* The image reference the serializer stores: set for an image file, None
\* (FALSE) for the empty value.
RecipeImageSerializer_image(r) == r.image = "image"

\* POST /recipes/{id}/upload-image
RecipeViewSet_upload_image(d, r) ==
    IF ~IsAuthenticated(d, r.cred) THEN Response(d, 401, <<>>)
    ELSE IF ~recipe_get_object(d, r.cred, r.id) THEN Response(d, 404, <<>>)
    ELSE IF ~RecipeImageSerializer_is_valid(r) THEN Response(d, 400, <<>>)
    ELSE Response([d EXCEPT !.recipe =
                      {IF x.id = r.id
                       THEN [x EXCEPT !.image = RecipeImageSerializer_image(r)]
                       ELSE x : x \in @}],
                  200, <<r.id>>)

\* GET /tags, GET /ingredients: the possible responses (one per admissible order).
BaseRecipeAttrViewSet_list(d, kind, r) ==
    IF ~IsAuthenticated(d, r.cred) THEN {Response(d, 401, <<>>)}
    ELSE IF ~assigned_only_is_int(r.assigned_only) THEN {Response(d, 500, <<>>)}
    ELSE {Response(d, 200, body) :
            body \in order_by_desc_name(
                         d[kind],
                         BaseRecipeAttrViewSet_get_queryset(
                             d, kind, r.cred, assigned_only_value(r.assigned_only)))}

\* PUT / PATCH /tags/{id}, /ingredients/{id}: name is the only writable field.
BaseRecipeAttrViewSet_update(d, kind, r) ==
    IF ~IsAuthenticated(d, r.cred) THEN Response(d, 401, <<>>)
    ELSE IF ~attr_get_object(d, kind, r.cred, r.id) THEN Response(d, 404, <<>>)
    ELSE IF (~r.partial /\ ~r.hasName) \/ (r.hasName /\ ~name_is_valid(r.name))
    THEN Response(d, 400, <<>>)
    ELSE Response([d EXCEPT ![kind] =
                      {IF x.id = r.id /\ r.hasName THEN [x EXCEPT !.name = r.name]
                       ELSE x : x \in @}],
                  200, <<r.id>>)

\* DELETE that removes the row and leaves the link rows of the recipes.
BaseRecipeAttrViewSet_destroy_row_only(d, kind, r) ==
    IF ~IsAuthenticated(d, r.cred) THEN Response(d, 401, <<>>)
    ELSE IF ~attr_get_object(d, kind, r.cred, r.id) THEN Response(d, 404, <<>>)
    ELSE Response([d EXCEPT ![kind] = {x \in @ : x.id # r.id}], 204, <<>>)

\* DELETE /tags/{id}, /ingredients/{id}: the row and its link rows go.
BaseRecipeAttrViewSet_destroy(d, kind, r) ==
    IF ~IsAuthenticated(d, r.cred) THEN Response(d, 401, <<>>)
    ELSE IF ~attr_get_object(d, kind, r.cred, r.id) THEN Response(d, 404, <<>>)
    ELSE Response([d EXCEPT ![kind] = {x \in @ : x.id # r.id},
                            ![LinksOf(kind)] = {l \in @ : l[2] # r.id}], 204, <<>>)

\* The viewset with CreateModelMixin and RetrieveModelMixin mixed in: POST on
\* the list route creates a row of the caller, GET on the detail route answers.
BaseRecipeAttrViewSet_with_create(d, r) ==
    IF ~IsAuthenticated(d, r.cred) THEN Response(d, 401, <<>>)
    ELSE IF r.op = "tag_create"
    THEN Response([d EXCEPT !.tag = @ \cup {AttrRow(d.tag_seq, r.cred, r.name)},
                            !.tag_seq = @ + 1], 201, <<d.tag_seq>>)
    ELSE IF r.op = "ingredient_create"
    THEN Response([d EXCEPT !.ingredient = @ \cup {AttrRow(d.ingredient_seq, r.cred, r.name)},
                            !.ingredient_seq = @ + 1], 201, <<d.ingredient_seq>>)
    ELSE Response(d, 200, <<r.id>>)

\* The viewset has no retrieve and no create: GET on the detail route and POST
\* on the list route have no handler, and APIView.dispatch answers 405 after
\* authentication.
BaseRecipeAttrViewSet_method_not_allowed(d, r) ==
    IF ~IsAuthenticated(d, r.cred) THEN Response(d, 401, <<>>)
    ELSE Response(d, 405, <<>>)

\* ---------------------------------------------------------------- accounts
\* str.lower() on one character of the alphabet the emails are written in.
lower(c) == CASE c = "A" -> "a" [] c = "B" -> "b" [] c = "X" -> "x" [] OTHER -> c

\* Position of the last '@' of the email, 0 when it has none: rsplit('@', 1).
rsplit_at(email) ==
    LET at == {i \in DOMAIN email : email[i] = "@"}
    IN  IF at = {} THEN 0 ELSE CHOOSE i \in at : \A k \in at : k <= i

\* The whole email lowercased.
normalize_email_lower_all(email) == [i \in DOMAIN email |-> lower(email[i])]

\* BaseUserManager.normalize_email: email_name + '@' + domain_part.lower(); an
\* email without '@' is returned as given.  (The alphabet has no whitespace, so
\* strip() removes nothing.)
normalize_email(email) ==
    LET k == rsplit_at(email)
    IN  IF k = 0 THEN email
        ELSE [i \in DOMAIN email |-> IF i > k THEN lower(email[i]) ELSE email[i]]

\* self.model(email=..., **extra_fields) followed by set_password(password).
UserRow(email, password, extra) ==
    [email |-> email,
     name |-> IF "name" \in DOMAIN extra THEN extra.name ELSE "",
     is_staff |-> "is_staff" \in DOMAIN extra /\ extra.is_staff = "True",
     is_superuser |-> "is_superuser" \in DOMAIN extra /\ extra.is_superuser = "True",
     password |-> make_password(password)]

\* Outcome of a manager call: the exception raised ("" when it returned), the
\* database after it and the account returned.
Outcome(raised, d, user) == [raised |-> raised, db |-> d, user |-> user]

NoExtra == [key \in {} |-> ""]

NoUser == UserRow(NoEmail, None, NoExtra)

\* create_user with the test `if not email` dropped.
create_user_any_email(d, email, password, extra) ==
    LET user == UserRow(normalize_email(email), password, extra)
    IN  IF user.email \in {u.email : u \in d.user}
        THEN Outcome("IntegrityError", d, NoUser)
        ELSE Outcome("", [d EXCEPT !.user = @ \cup {user}], user)

\* UserManager.create_user: an empty email raises ValueError; the email is
\* normalized, the password hashed, and save() raises IntegrityError when the
\* email column (unique=True) already holds the normalized email.
create_user(d, email, password, extra) ==
    IF email = NoEmail THEN Outcome("ValueError", d, NoUser)
    ELSE LET user == UserRow(normalize_email(email), password, extra)
         IN  IF user.email \in {u.email : u \in d.user}
             THEN Outcome("IntegrityError", d, NoUser)
             ELSE Outcome("", [d EXCEPT !.user = @ \cup {user}], user)

\* dict.setdefault(key, value)
setdefault(extra, key, value) ==
    IF key \in DOMAIN extra THEN extra ELSE extra @@ (key :> value)

\* create_superuser without the two `is not True` tests.
create_superuser_unchecked(d, email, password, extra) ==
    create_user(d, email, password,
                setdefault(setdefault(extra, "is_staff", "True"), "is_superuser", "True"))

\* UserManager.create_superuser
create_superuser(d, email, password, extra) ==
    LET extra_fields ==
            setdefault(setdefault(extra, "is_staff", "True"), "is_superuser", "True")
    IN  IF extra_fields.is_staff # "True" THEN Outcome("ValueError", d, NoUser)
        ELSE IF extra_fields.is_superuser # "True" THEN Outcome("ValueError", d, NoUser)
        ELSE create_user(d, email, password, extra_fields)

\* EmailField: a local part and a domain around one '@'.
email_is_valid(email) ==
    LET k == rsplit_at(email)
    IN  /\ 1 < k /\ k < Len(email)
        /\ \A i \in DOMAIN email : email[i] = "@" => i = k

\* The validator of the unique email column: no other account has exactly
\* this email (lookup `exact` on the value as given).
UniqueValidator(d, email, instance) ==
    \A u \in d.user : u.email = email => u.email = instance

\* UserSerializer with min_length read as 1.
UserSerializer_is_valid_any_length(d, r, instance) ==
    /\ r.partial \/ (r.hasEmail /\ r.hasName /\ r.hasPassword)
    /\ r.hasEmail => (email_is_valid(r.email) /\ UniqueValidator(d, r.email, instance))
    /\ r.hasName => r.name # ""
    /\ r.hasPassword => Len(r.password) >= 1

\* UserSerializer(instance, data, partial).is_valid(): every field is required
\* unless the update is partial; the email is well formed and unique; the name
\* is not blank; the password has 5 characters or more.
UserSerializer_is_valid(d, r, instance) ==
    /\ r.partial \/ (r.hasEmail /\ r.hasName /\ r.hasPassword)
    /\ r.hasEmail => (email_is_valid(r.email) /\ UniqueValidator(d, r.email, instance))
    /\ r.hasName => r.name # ""
    /\ r.hasPassword => Len(r.password) >= 5

\* UserSerializer.create
UserSerializer_create(d, r) == create_user(d, r.email, r.password, [name |-> r.name])

\* The owner of every row of `old` becomes `new` (rows refer to the account,
\* whatever its email is).
Rekey(rows, old, new) == {IF x.user = old THEN [x EXCEPT !.user = new] ELSE x : x \in rows}

\* UserSerializer.update that leaves the password in validated_data, so that
\* super().update() assigns it like any other field.
UserSerializer_update_raw(d, email, r) ==
    [d EXCEPT !.user =
        {IF u.email # email THEN u
         ELSE [u EXCEPT !.email = IF r.hasEmail THEN r.email ELSE @,
                        !.name = IF r.hasName THEN r.name ELSE @,
                        !.password = IF r.hasPassword THEN r.password ELSE @] : u \in @},
              !.recipe = IF r.hasEmail THEN Rekey(@, email, r.email) ELSE @,
              !.tag = IF r.hasEmail THEN Rekey(@, email, r.email) ELSE @,
              !.ingredient = IF r.hasEmail THEN Rekey(@, email, r.email) ELSE @]

\* UserSerializer.update: the password is popped, super().update() assigns the
\* other fields as given, and a password that was given is hashed.
UserSerializer_update(d, email, r) ==
    [d EXCEPT !.user =
        {IF u.email # email THEN u
         ELSE [u EXCEPT !.email = IF r.hasEmail THEN r.email ELSE @,
                        !.name = IF r.hasName THEN r.name ELSE @,
                        !.password = IF r.hasPassword /\ r.password # ""
                                     THEN make_password(r.password) ELSE @] : u \in @},
              !.recipe = IF r.hasEmail THEN Rekey(@, email, r.email) ELSE @,
              !.tag = IF r.hasEmail THEN Rekey(@, email, r.email) ELSE @,
              !.ingredient = IF r.hasEmail THEN Rekey(@, email, r.email) ELSE @]

\* UserSerializer(...).data: password is write_only.
UserSerializer_data(user) == [email |-> user.email, name |-> user.name]

\* authenticate(username=email, password=password): the account whose email is
\* exactly the one given, when the password matches its hash.
authenticate(d, email, password) ==
    {u \in d.user : u.email = email /\ check_password(password, u.password)}

\* AuthTokenSerializer.validate: both fields given and authenticate() finds the
\* account.
AuthTokenSerializer_validate(d, r) ==
    /\ r.email # NoEmail /\ r.password # ""
    /\ authenticate(d, r.email, r.password) # {}

\* POST /users
CreateUserView(d, r) ==
    IF ~UserSerializer_is_valid(d, r, NoEmail) THEN Response(d, 400, <<>>)
    ELSE LET c == UserSerializer_create(d, r)
         IN  IF c.raised = "" THEN Response(c.db, 201, UserSerializer_data(c.user))
             ELSE Response(c.db, 500, <<>>)

\* POST /users/token
CreateTokenView(d, r) ==
    IF AuthTokenSerializer_validate(d, r) THEN Response(d, 200, [token |-> r.email])
    ELSE Response(d, 400, <<>>)

\* request.user is an account of the table (an anonymous user has no profile
\* to serialize: the view fails).
has_profile(d, cred) == \E u \in d.user : u.email = cred

\* GET /users/me
ManageUserView_retrieve(d, r) ==
    IF ~IsAuthenticated(d, r.cred) THEN Response(d, 401, <<>>)
    ELSE IF ~has_profile(d, r.cred) THEN Response(d, 500, <<>>)
    ELSE Response(d, 200, UserSerializer_data(CHOOSE u \in d.user : u.email = r.cred))

\* PUT / PATCH /users/me
ManageUserView_update(d, r) ==
    IF ~IsAuthenticated(d, r.cred) THEN Response(d, 401, <<>>)
    ELSE IF ~has_profile(d, r.cred) THEN Response(d, 500, <<>>)
    ELSE IF ~UserSerializer_is_valid(d, r, r.cred) THEN Response(d, 400, <<>>)
    ELSE LET after == UserSerializer_update(d, r.cred, r)
             email == IF r.hasEmail THEN r.email ELSE r.cred
         IN  Response(after, 200,
                      UserSerializer_data(CHOOSE u \in after.user : u.email = email))

\* ---------------------------------------------------------------- requests served
\* Nested tag / ingredient payloads of a recipe request (lists of {name: ..}).
TagLists ==
    {<<>>, <<"a">>, <<"b">>, <<"a", "b">>, <<"a", "a">>, <<Blank>>, <<"b", Blank>>}

IngredientLists == {<<>>, <<"a">>, <<"b", "a">>, <<Blank>>, <<"a", Blank>>}

NoNested ==
    [hasTags |-> FALSE, tags |-> <<>>, hasIngredients |-> FALSE, ingredients |-> <<>>]

NestedPayloads ==
    {NoNested}
      \cup {[NoNested EXCEPT !.hasTags = TRUE, !.tags = t] : t \in TagLists}
      \cup {[NoNested EXCEPT !.hasIngredients = TRUE, !.ingredients = g] :
              g \in IngredientLists}
      \cup {[hasTags |-> TRUE, tags |-> t, hasIngredients |-> TRUE, ingredients |-> g] :
              t \in {<<>>, <<"a">>}, g \in {<<"a">>, <<Blank>>}}

\* Raw query-string values, split at ',' (an absent or empty value is <<>>).
TagParams == {<<>>, <<"1">>, <<"2", "1">>, <<"1", "x">>, <<"1", "">>}
IngredientParams == {<<>>, <<"1">>}
AssignedParams == {<<>>, <<"0">>, <<"1">>, <<"x">>}

WithNested(r, p) ==
    [r EXCEPT !.hasTags = p.hasTags, !.tags = p.tags,
              !.hasIngredients = p.hasIngredients, !.ingredients = p.ingredients]

WithTitle(r, title) == [r EXCEPT !.hasTitle = TRUE, !.title = title]

WithName(r, name) == [r EXCEPT !.hasName = TRUE, !.name = name]

\* Requests on a detail route: from every account for every id up to n, and
\* without a valid token for id 1.
Detail(op, n) ==
    {[Request(op, cred) EXCEPT !.id = id] : cred \in Emails, id \in 1..n}
      \cup {[Request(op, cred) EXCEPT !.id = 1] : cred \in {NoToken, BadToken}}

UserCreateRequests ==
    {[WithName(Request("user_create", NoToken), "n1") EXCEPT
          !.hasEmail = TRUE, !.email = email, !.hasPassword = TRUE, !.password = password] :
       email \in Emails, password \in {GoodPassword, ShortPassword}}

TokenCreateRequests ==
    {[Request("token_create", NoToken) EXCEPT
          !.hasEmail = TRUE, !.email = email, !.hasPassword = TRUE, !.password = password] :
       email \in Emails, password \in {GoodPassword, WrongPassword}}

MeRetrieveRequests == {Request("me_retrieve", cred) : cred \in Creds}

MeUpdateRequests ==
    {[WithName(Request("me_update", cred), name) EXCEPT !.partial = TRUE] :
       cred \in Creds, name \in ProfileNames}

RecipeListRequests ==
    {[Request("recipe_list", cred) EXCEPT !.tagsParam = tp, !.ingredientsParam = ip] :
       cred \in Creds, tp \in TagParams, ip \in IngredientParams}

\* POST /recipes: every nested payload with a title, and one without the title.
RecipeCreateRequests ==
    {WithTitle(WithNested(Request("recipe_create", cred), p), "t1") :
       cred \in Emails, p \in NestedPayloads}
      \cup {Request("recipe_create", cred) : cred \in Creds}

\* PATCH with every nested payload, PATCH and PUT with a title, PUT without.
RecipeUpdateRequests ==
    {WithNested([r EXCEPT !.partial = TRUE], p) :
       r \in Detail("recipe_update", MaxRecipes), p \in NestedPayloads}
      \cup {WithTitle([r EXCEPT !.partial = partial], "t2") :
              r \in Detail("recipe_update", MaxRecipes), partial \in BOOLEAN}
      \cup {WithTitle(WithNested([r EXCEPT !.partial = TRUE], p), "t2") :
              r \in Detail("recipe_update", MaxRecipes),
              p \in {q \in NestedPayloads :
                       Blank \in Range(q.tags) \cup Range(q.ingredients)}}
      \cup Detail("recipe_update", MaxRecipes)

\* An image file, a value that is no image, an empty value, or no image field.
RecipeUploadImageRequests ==
    {[r EXCEPT !.hasImage = TRUE, !.image = image] :
       r \in Detail("recipe_upload_image", MaxRecipes), image \in {"image", "text", ""}}
      \cup Detail("recipe_upload_image", MaxRecipes)

AttrListRequests(kind) ==
    {[Request(kind \o "_list", cred) EXCEPT !.assigned_only = ap] :
       cred \in Creds, ap \in AssignedParams}

AttrUpdateRequests(kind, n) ==
    {WithName([r EXCEPT !.partial = TRUE], name) :
       r \in Detail(kind \o "_update", n), name \in Names \cup {Blank}}
      \cup Detail(kind \o "_update", n)

AttrCreateRequests(kind) ==
    {WithName(Request(kind \o "_create", cred), "a") : cred \in Creds}

\* ---------------------------------------------------------------- behaviour
WithinBounds(d) ==
    /\ Cardinality(d.user) <= MaxUsers
    /\ d.recipe_seq <= MaxRecipes + 1
    /\ d.tag_seq <= MaxTags + 1
    /\ d.ingredient_seq <= MaxIngredients + 1

\* The request as logged: a request refused before its payload is read
\* (401, 404, 405) is logged by route, credential and id alone.
Logged(r, status) ==
    IF status \in {401, 404, 405} THEN [Request(r.op, r.cred) EXCEPT !.id = r.id]
    ELSE r

\* No request is being handled.
NoRequest ==
    [req |-> Request("", NoToken), status |-> 0, body |-> <<>>, pre |-> EmptyDb]

Ready == last.status = 0

\* The handler's writes are in the database and the response is out; `pre` keeps
\* the database as it was when the request came in.
Respond(r, out) ==
    /\ WithinBounds(out.db)
    /\ db' = out.db
    /\ last' = [req |-> Logged(r, out.status), status |-> out.status,
                body |-> out.body, pre |-> db]
    /\ writes' = IF out.db = db THEN writes ELSE writes + 1
    /\ writes' <= MaxWrites
    /\ UNCHANGED inflight

TagViewSet_update(d, r) == BaseRecipeAttrViewSet_update(d, "tag", r)
TagViewSet_destroy(d, r) == BaseRecipeAttrViewSet_destroy(d, "tag", r)
IngredientViewSet_update(d, r) == BaseRecipeAttrViewSet_update(d, "ingredient", r)
IngredientViewSet_destroy(d, r) == BaseRecipeAttrViewSet_destroy(d, "ingredient", r)

\* The requests being served side by side, one per worker, each at a step of
\* RecipeSerializer.create.
Workers == {1, 2}

Idle ==
    [pc |-> "idle", user |-> NoToken, kind |-> "", name |-> "", recipe |-> 0,
     found |-> 0, fresh |-> FALSE, status |-> 0]

Init ==
    /\ db = EmptyDb
    /\ last = NoRequest
    /\ writes = 0
    /\ inflight = [p \in Workers |-> Idle]

UserCreate ==
    /\ Ready
    /\ \E r \in UserCreateRequests :
           Respond(r, CreateUserView(db, r))
TokenCreate ==
    /\ Ready
    /\ \E r \in TokenCreateRequests :
           Respond(r, CreateTokenView(db, r))
MeRetrieve ==
    /\ Ready
    /\ \E r \in MeRetrieveRequests :
           Respond(r, ManageUserView_retrieve(db, r))
MeUpdate ==
    /\ Ready
    /\ \E r \in MeUpdateRequests :
           Respond(r, ManageUserView_update(db, r))
RecipeList ==
    /\ Ready
    /\ \E r \in RecipeListRequests :
           Respond(r, RecipeViewSet_list(db, r))
RecipeCreate ==
    /\ Ready
    /\ \E r \in RecipeCreateRequests :
           Respond(r, RecipeViewSet_create(db, r))
RecipeRetrieve ==
    /\ Ready
    /\ \E r \in Detail("recipe_retrieve", MaxRecipes) :
           Respond(r, RecipeViewSet_retrieve(db, r))
RecipeUpdate ==
    /\ Ready
    /\ \E r \in RecipeUpdateRequests :
           Respond(r, RecipeViewSet_update(db, r))
RecipeDestroy ==
    /\ Ready
    /\ \E r \in Detail("recipe_destroy", MaxRecipes) :
           Respond(r, RecipeViewSet_destroy(db, r))
RecipeUploadImage ==
    /\ Ready
    /\ \E r \in RecipeUploadImageRequests :
           Respond(r, RecipeViewSet_upload_image(db, r))

TagList ==
    /\ Ready
    /\ \E r \in AttrListRequests("tag") :
           \E out \in BaseRecipeAttrViewSet_list(db, "tag", r) : Respond(r, out)
TagUpdate ==
    /\ Ready
    /\ \E r \in AttrUpdateRequests("tag", MaxTags) :
           Respond(r, TagViewSet_update(db, r))
TagDestroy ==
    /\ Ready
    /\ \E r \in Detail("tag_destroy", MaxTags) :
           Respond(r, TagViewSet_destroy(db, r))
TagRetrieve ==
    /\ Ready
    /\ \E r \in Detail("tag_retrieve", MaxTags) :
           Respond(r, BaseRecipeAttrViewSet_method_not_allowed(db, r))
TagCreate ==
    /\ Ready
    /\ \E r \in AttrCreateRequests("tag") :
           Respond(r, BaseRecipeAttrViewSet_method_not_allowed(db, r))

IngredientList ==
    /\ Ready
    /\ \E r \in AttrListRequests("ingredient") :
           \E out \in BaseRecipeAttrViewSet_list(db, "ingredient", r) : Respond(r, out)
IngredientUpdate ==
    /\ Ready
    /\ \E r \in AttrUpdateRequests("ingredient", MaxIngredients) :
           Respond(r, IngredientViewSet_update(db, r))
IngredientDestroy ==
    /\ Ready
    /\ \E r \in Detail("ingredient_destroy", MaxIngredients) :
           Respond(r, IngredientViewSet_destroy(db, r))
IngredientRetrieve ==
    /\ Ready
    /\ \E r \in Detail("ingredient_retrieve", MaxIngredients) :
           Respond(r, BaseRecipeAttrViewSet_method_not_allowed(db, r))
IngredientCreate ==
    /\ Ready
    /\ \E r \in AttrCreateRequests("ingredient") :
           Respond(r, BaseRecipeAttrViewSet_method_not_allowed(db, r))

\* The response has gone out; the server waits for the next request.
Return ==
    /\ last.status # 0
    /\ last' = NoRequest
    /\ UNCHANGED <<db, writes, inflight>>

\* ---------------------------------------------------------------- accounts alone
\* Emails given to the manager and to the account endpoints: domains and local
\* parts in both cases; the manager also gets an email with two '@', one with
\* none and the empty one, the endpoint one without a local part.
UserEmails == {<<"a", "@", "x">>, <<"a", "@", "X">>, <<"A", "@", "X">>}

ManagerEmails == UserEmails \cup {NoEmail, <<"a">>, <<"a", "@", "B", "@", "X">>}

\* extra_fields of a create_user call.
UserExtras == {NoExtra, [name |-> "n1", is_staff |-> "True"]}

\* extra_fields of a create_superuser call: the flags absent, True, or another value.
SuperuserExtras ==
    {NoExtra, [name |-> "n1"], [is_staff |-> "True", is_superuser |-> "True"],
     [is_staff |-> "False"], [is_superuser |-> "False"],
     [is_staff |-> "None"], [is_staff |-> "True", is_superuser |-> "1"]}

\* A manager call as the tests of core make it.
Call(op, email, password, extra) ==
    [op |-> op, cred |-> NoToken, email |-> email, password |-> password, extra |-> extra]

Accounts(d) == {u.email : u \in d.user}

\* How a manager call ended.
CallReturned == 1
CallRaised == 2

CallResponse(c) ==
    IF c.raised = "" THEN Response(c.db, CallReturned, c.user)
    ELSE Response(c.db, CallRaised, [raised |-> c.raised])

AccountCreateRequests ==
    {[WithName(Request("user_create", NoToken), "n1") EXCEPT
          !.hasEmail = TRUE, !.email = email, !.hasPassword = TRUE, !.password = password] :
       email \in UserEmails \cup {<<"@", "x">>},
       password \in {GoodPassword, ShortPassword}}

AccountTokenRequests ==
    {[Request("token_create", NoToken) EXCEPT
          !.hasEmail = TRUE, !.email = email, !.hasPassword = TRUE, !.password = password] :
       email \in UserEmails, password \in {GoodPassword, WrongPassword, ""}}

\* PATCH /users/me payloads: a name, a password, both, or another email.
AccountUpdatePayloads ==
    {[WithName(Request("me_update", NoToken), "n2") EXCEPT !.partial = TRUE]}
      \cup {[Request("me_update", NoToken) EXCEPT
                 !.partial = TRUE, !.hasPassword = TRUE, !.password = password] :
              password \in {GoodPassword, WrongPassword, ShortPassword}}
      \cup {[WithName(Request("me_update", NoToken), "n2") EXCEPT
                 !.partial = TRUE, !.hasPassword = TRUE, !.password = password] :
              password \in {WrongPassword, ShortPassword}}
      \cup {[Request("me_update", NoToken) EXCEPT
                 !.partial = TRUE, !.hasEmail = TRUE, !.email = email] :
              email \in UserEmails}

\* Credentials of the account requests: the token of an account, or none.
AccountCreds(d) == {u.email : u \in d.user} \cup {NoToken}

\* get_user_model().objects.create_user(email, password, **extra_fields)
ManagerCreateUser ==
    /\ Ready
    /\ \E email \in ManagerEmails, password \in {GoodPassword, None},
          extra \in UserExtras :
           Respond(Call("create_user", email, password, extra),
                   CallResponse(create_user(db, email, password, extra)))

\* get_user_model().objects.create_superuser(email, password, **extra_fields)
ManagerCreateSuperuser ==
    /\ Ready
    /\ \E email \in {<<"a", "@", "X">>, NoEmail}, password \in {GoodPassword},
          extra \in SuperuserExtras :
           Respond(Call("create_superuser", email, password, extra),
                   CallResponse(create_superuser(db, email, password, extra)))

AccountCreate ==
    /\ Ready
    /\ \E r \in AccountCreateRequests : Respond(r, CreateUserView(db, r))

AccountToken ==
    /\ Ready
    /\ \E r \in AccountTokenRequests : Respond(r, CreateTokenView(db, r))

AccountRetrieve ==
    /\ Ready
    /\ \E cred \in AccountCreds(db) :
           LET r == Request("me_retrieve", cred)
           IN  Respond(r, ManageUserView_retrieve(db, r))

AccountUpdate ==
    /\ Ready
    /\ \E cred \in AccountCreds(db), p \in AccountUpdatePayloads :
           LET r == [p EXCEPT !.cred = cred]
           IN  Respond(r, ManageUserView_update(db, r))

UserNext ==
    \/ ManagerCreateUser
    \/ ManagerCreateSuperuser
    \/ AccountCreate
    \/ AccountToken
    \/ AccountRetrieve
    \/ AccountUpdate
    \/ Return

\* The user store and the account endpoints, without recipes.
UserSpec == Init /\ [][UserNext]_vars

\* ---------------------------------------------------------------- deleting a user
\* user.delete() on a registered account: a call on the model, outside the
\* API, so it is not counted among the requests that wrote.
UserDelete ==
    /\ Ready
    /\ \E email \in Accounts(db) :
           /\ db' = User_delete(db, email)
           /\ last' = [req |-> Call("user_delete", email, None, NoExtra),
                       status |-> CallReturned, body |-> <<>>, pre |-> db]
    /\ UNCHANGED <<writes, inflight>>

\* Accounts sign up, create recipes with tags and ingredients, delete tags, and
\* are deleted.
CascadeNext ==
    \/ UserCreate
    \/ RecipeCreate
    \/ TagDestroy
    \/ UserDelete
    \/ Return

CascadeSpec == Init /\ [][CascadeNext]_vars

\* ---------------------------------------------------------------- two requests side by side
\* POST /recipes with one nested tag or ingredient name, served by two workers
\* whose database statements interleave. Each statement is its own step: no
\* lock is taken and the tables declare no unique constraint on (user, name).

\* QuerySet.get(user=.., name=..): the rows that match.
QuerySet_get(d, kind, user, name) == {x \in d[kind] : x.user = user /\ x.name = name}

\* create(): tags/ingredients popped, Recipe.objects.create(**validated_data).
RecipeCreateBegin ==
    \E p \in Workers, user \in Accounts(db), kind \in {"tag", "ingredient"}, name \in Names :
        /\ inflight[p].pc = "idle"
        /\ db.recipe_seq <= MaxRecipes
        /\ db' = [db EXCEPT !.recipe = @ \cup {RecipeRow(db.recipe_seq, user, "t1")},
                            !.recipe_seq = @ + 1]
        /\ inflight' = [inflight EXCEPT ![p] =
               [pc |-> "get", user |-> user, kind |-> kind, name |-> name,
                recipe |-> db.recipe_seq, found |-> 0,
                fresh |-> QuerySet_get(db, kind, user, name) = {}, status |-> 0]]
        /\ UNCHANGED <<last, writes>>

\* get_or_create, first half: self.get(user=auth_user, name=..) returns the
\* row, raises DoesNotExist (caught: the row is to be created) or raises
\* MultipleObjectsReturned (not caught: 500).
GetOrCreateGet ==
    \E p \in Workers :
        /\ inflight[p].pc = "get"
        /\ LET rows == QuerySet_get(db, inflight[p].kind, inflight[p].user, inflight[p].name)
           IN  inflight' = [inflight EXCEPT ![p] =
                   IF rows = {} THEN [@ EXCEPT !.pc = "create"]
                   ELSE IF Cardinality(rows) = 1
                   THEN [@ EXCEPT !.pc = "add", !.found = (CHOOSE x \in rows : TRUE).id]
                   ELSE [@ EXCEPT !.pc = "done", !.status = 500]]
        /\ UNCHANGED <<db, last, writes>>

\* get_or_create, second half: self.create(user=auth_user, name=..).
GetOrCreateCreate ==
    \E p \in Workers :
        /\ inflight[p].pc = "create"
        /\ LET kind == inflight[p].kind
               seq  == IF kind = "tag" THEN db.tag_seq ELSE db.ingredient_seq
           IN  /\ seq <= (IF kind = "tag" THEN MaxTags ELSE MaxIngredients)
               /\ db' = IF kind = "tag"
                        THEN [db EXCEPT !.tag = @ \cup {AttrRow(seq, inflight[p].user, inflight[p].name)},
                                        !.tag_seq = @ + 1]
                        ELSE [db EXCEPT !.ingredient = @ \cup {AttrRow(seq, inflight[p].user, inflight[p].name)},
                                        !.ingredient_seq = @ + 1]
               /\ inflight' = [inflight EXCEPT ![p] = [@ EXCEPT !.pc = "add", !.found = seq]]
        /\ UNCHANGED <<last, writes>>

\* recipe.tags.add(tag_obj) / recipe.ingredients.add(ingredient_obj), then the
\* serializer returns and the view answers 201.
RelatedAdd ==
    \E p \in Workers :
        /\ inflight[p].pc = "add"
        /\ db' = [db EXCEPT ![LinksOf(inflight[p].kind)] =
                      @ \cup {<<inflight[p].recipe, inflight[p].found>>}]
        /\ inflight' = [inflight EXCEPT ![p] = [@ EXCEPT !.pc = "done", !.status = 201]]
        /\ UNCHANGED <<last, writes>>

\* The response is out and the worker takes the next request.
WorkerReturn ==
    \E p \in Workers :
        /\ inflight[p].pc = "done"
        /\ inflight' = [inflight EXCEPT ![p] = Idle]
        /\ UNCHANGED <<db, last, writes>>

RaceNext ==
    \/ UserCreate
    \/ Return
    \/ RecipeCreateBegin
    \/ GetOrCreateGet
    \/ GetOrCreateCreate
    \/ RelatedAdd
    \/ WorkerReturn

RaceSpec == Init /\ [][RaceNext]_vars

\* ---------------------------------------------------------------- the whole API
Next ==
    \/ UserCreate
    \/ TokenCreate
    \/ MeRetrieve
    \/ MeUpdate
    \/ RecipeList
    \/ RecipeCreate
    \/ RecipeRetrieve
    \/ RecipeUpdate
    \/ RecipeDestroy
    \/ RecipeUploadImage
    \/ TagList
    \/ TagUpdate
    \/ TagDestroy
    \/ TagRetrieve
    \/ TagCreate
    \/ IngredientList
    \/ IngredientUpdate
    \/ IngredientDestroy
    \/ IngredientRetrieve
    \/ IngredientCreate
    \/ Return

Spec == Init /\ [][Next]_vars

\* ---------------------------------------------------------------- properties
\* A response is out: `last` holds the request, `last.pre` the database before it.
Handled == last.status # 0

\* Ids of the rows of a table that belong to a user.
Owned(d, table, user) == {x.id : x \in {y \in d[table] : y.user = user}}

TagsOf(d, rid) == {l[2] : l \in {m \in d.recipe_tags : m[1] = rid}}

IngredientsOf(d, rid) == {l[2] : l \in {m \in d.recipe_ingredients : m[1] = rid}}

\* The tables and the associations, without the id sequences.
Rows(d) ==
    <<d.user, d.recipe, d.tag, d.ingredient, d.recipe_tags, d.recipe_ingredients>>

NestedNames(r) == Range(r.tags) \cup Range(r.ingredients)

ListOps == {"recipe_list", "tag_list", "ingredient_list"}

RecipeDetailOps ==
    {"recipe_retrieve", "recipe_update", "recipe_destroy", "recipe_upload_image"}

AttrWriteOps == {"tag_update", "tag_destroy", "ingredient_update", "ingredient_destroy"}

AttrRetrieveOps == {"tag_retrieve", "ingredient_retrieve"}

PublicOps == {"user_create", "token_create"}

TableOf(op) ==
    IF op \in RecipeDetailOps \cup {"recipe_list"} THEN "recipe"
    ELSE IF op \in {"tag_list", "tag_update", "tag_destroy", "tag_retrieve"} THEN "tag"
    ELSE "ingredient"

Unfiltered(r) == r.tagsParam = <<>> /\ r.ingredientsParam = <<>> /\ r.assigned_only = <<>>

\* C1: a list request on recipes, tags or ingredients by an authenticated caller
\* returns only entities the caller owns, and every one of them when no filter
\* parameter is given.
C1_ListScopedToCaller ==
    (Handled /\ last.req.op \in ListOps /\ last.req.cred \in Accounts(last.pre)) =>
        LET own == Owned(db, TableOf(last.req.op), last.req.cred)
        IN  /\ Range(last.body) \subseteq own
            /\ Unfiltered(last.req) => (last.status = 200 /\ Range(last.body) = own)

\* C1 witness: an unfiltered recipe list returned the caller's recipes while
\* another user's recipe was in the table.
C1_Witness ==
    /\ last.req.op = "recipe_list" /\ last.status = 200 /\ Unfiltered(last.req)
    /\ last.body # <<>>
    /\ \E x \in db.recipe : x.user # last.req.cred

\* The request is from account A on the id of a row that belongs to another account.
CrossUser ==
    /\ Handled
    /\ last.req.op \in RecipeDetailOps \cup AttrWriteOps \cup AttrRetrieveOps
    /\ last.req.cred \in Accounts(last.pre)
    /\ \E x \in last.pre[TableOf(last.req.op)] :
           x.id = last.req.id /\ x.user # last.req.cred

\* C2 as stated: every retrieve, update, delete or image upload on another
\* user's recipe, tag or ingredient is answered not-found and changes nothing.
C2_CrossUserAlwaysNotFound == CrossUser => (last.status = 404 /\ db = last.pre)

\* C2 amended: retrieve, update, delete and image upload on another user's
\* recipe, and update and delete on another user's tag or ingredient, are
\* answered 404; a retrieve on a tag or ingredient id is answered 405 (the
\* viewset has no retrieve); in every case nothing changes.
C2_CrossUserRefused ==
    CrossUser =>
        /\ db = last.pre
        /\ last.status = IF last.req.op \in AttrRetrieveOps THEN 405 ELSE 404

\* C2 witness: an update of another user's tag that is attached to a recipe was
\* answered 404.
C2_Witness ==
    /\ CrossUser /\ last.req.op = "tag_update" /\ last.status = 404
    /\ \E l \in db.recipe_tags : l[2] = last.req.id

\* C3: a request to a recipe, tag, ingredient or profile endpoint without a
\* valid token is answered 401 and changes nothing; only account creation and
\* token issuance are served without one.
C3_Unauthenticated401 ==
    (Handled /\ last.req.cred \notin Accounts(last.pre) /\ last.req.op \notin PublicOps)
        => (last.status = 401 /\ db = last.pre)

\* C3 witness: a delete of an existing recipe with a token that matches no
\* account was answered 401.
C3_Witness ==
    /\ last.req.op = "recipe_destroy" /\ last.req.cred = BadToken /\ last.status = 401
    /\ \E x \in db.recipe : x.id = last.req.id

\* Rows of a table that belong to a user and carry one of the names.
Named(rows, user, names) == {x \in rows : x.user = user /\ x.name \in names}

\* A recipe create by an account, with a title and no blank nested name.
ValidCreate ==
    /\ Handled /\ last.req.op = "recipe_create"
    /\ last.req.cred \in Accounts(last.pre)
    /\ last.req.hasTitle /\ Blank \notin NestedNames(last.req)

\* A recipe update by the account that owns the recipe.
OwnUpdate ==
    /\ Handled /\ last.req.op = "recipe_update"
    /\ last.req.id \in Owned(last.pre, "recipe", last.req.cred)

\* ... whose payload passes validation.
ValidUpdate ==
    /\ OwnUpdate
    /\ last.req.partial \/ last.req.hasTitle
    /\ Blank \notin NestedNames(last.req)

\* What a create with the names `given` is to do to one table: one new row of the
\* caller per name the caller did not have, nothing else new, nothing removed,
\* and the recipe linked to exactly the caller's rows of the given names.
ResolvedOnCreate(before, after, linked, user, given) ==
    LET fresh == {n \in given : Named(before, user, {n}) = {}}
    IN  /\ before \subseteq after
        /\ \A x \in after \ before : x.user = user /\ x.name \in fresh
        /\ \A n \in fresh : Cardinality({x \in after \ before : x.name = n}) = 1
        /\ \A n \in given : Cardinality(Named(after, user, {n})) = 1
        /\ linked = {x.id : x \in Named(after, user, given)}

\* C4: a recipe create with tag (ingredient) names makes a recipe of the caller,
\* one new row per distinct name the caller did not have, reuses the caller's
\* row for each name it had, and attaches exactly the rows of the given names;
\* names the caller already has add no row.
C4_CreateResolvesNames ==
    ValidCreate =>
        LET rid == last.pre.recipe_seq
        IN  /\ last.status = 201
            /\ db.recipe = last.pre.recipe
                             \cup {RecipeRow(rid, last.req.cred, last.req.title)}
            /\ ResolvedOnCreate(last.pre.tag, db.tag, TagsOf(db, rid),
                                last.req.cred, Range(last.req.tags))
            /\ ResolvedOnCreate(last.pre.ingredient, db.ingredient,
                                IngredientsOf(db, rid), last.req.cred,
                                Range(last.req.ingredients))

\* No account owns two rows of the table with the same name.
UniqueNames(rows) ==
    \A x \in rows : \A y \in rows : (x.user = y.user /\ x.name = y.name) => x.id = y.id

\* C5: no user owns two Tag rows with the same name, nor two Ingredient rows
\* with the same name, after any sequence of API operations.
C5_NoDuplicateNames == UniqueNames(db.tag) /\ UniqueNames(db.ingredient)

\* C6: a recipe create whose tags or ingredients contain an empty name is
\* answered 400 and persists nothing, whatever the other entries are.
C6_CreateBlankNameRejected ==
    (Handled /\ last.req.op = "recipe_create" /\ last.req.cred \in Accounts(last.pre)
       /\ Blank \in NestedNames(last.req))
        => (last.status = 400 /\ db = last.pre)

\* C6 witness: a create with a valid new tag name next to an empty one was
\* answered 400.
C6_Witness ==
    /\ last.req.op = "recipe_create" /\ last.status = 400
    /\ last.req.tags = <<"b", Blank>>
    /\ Named(db.tag, last.req.cred, {"b"}) = {}
    /\ db.tag # {}

\* C7: a recipe create or update that fails leaves the tables and the
\* associations exactly as they were before the request.
C7_AllOrNothing ==
    (Handled /\ last.req.op \in {"recipe_create", "recipe_update"}
       /\ last.status \notin {200, 201})
        => Rows(db) = Rows(last.pre)

\* C8: on a recipe update a tags key replaces the recipe's tag set by the
\* caller's tags of the given names and an absent key leaves it as it was; the
\* same for ingredients, each independently of the other.
C8_UpdateReplacesSets ==
    ValidUpdate =>
        /\ TagsOf(db, last.req.id) =
             IF last.req.hasTags
             THEN {x.id : x \in Named(db.tag, last.req.cred, Range(last.req.tags))}
             ELSE TagsOf(last.pre, last.req.id)
        /\ IngredientsOf(db, last.req.id) =
             IF last.req.hasIngredients
             THEN {x.id : x \in Named(db.ingredient, last.req.cred,
                                      Range(last.req.ingredients))}
             ELSE IngredientsOf(last.pre, last.req.id)

\* Associations of the recipes other than rid.
OtherLinks(d, rid) ==
    <<{l \in d.recipe_tags : l[1] # rid}, {l \in d.recipe_ingredients : l[1] # rid}>>

\* C9: an update with an empty tags (ingredients) list leaves the recipe with no
\* tag (ingredient) association, the Tag (Ingredient) rows as they were and the
\* associations of every other recipe as they were.
C9_EmptyListClears ==
    /\ (ValidUpdate /\ last.req.hasTags /\ last.req.tags = <<>>) =>
           /\ TagsOf(db, last.req.id) = {}
           /\ db.tag = last.pre.tag
           /\ OtherLinks(db, last.req.id) = OtherLinks(last.pre, last.req.id)
    /\ (ValidUpdate /\ last.req.hasIngredients /\ last.req.ingredients = <<>>) =>
           /\ IngredientsOf(db, last.req.id) = {}
           /\ db.ingredient = last.pre.ingredient
           /\ OtherLinks(db, last.req.id) = OtherLinks(last.pre, last.req.id)

\* C9 witness: an update with an empty tags list was answered 200 on a recipe
\* that had a tag, while another recipe keeps its tag.
C9_Witness ==
    /\ ValidUpdate /\ last.status = 200
    /\ last.req.hasTags /\ last.req.tags = <<>>
    /\ TagsOf(last.pre, last.req.id) # {}
    /\ \E l \in db.recipe_tags : l[1] # last.req.id

\* C10: a recipe update whose tags or ingredients contain an empty name is
\* answered 400, leaves the recipe's fields, tag set and ingredient set as they
\* were and creates no Tag or Ingredient row.
C10_UpdateBlankNameRejected ==
    (OwnUpdate /\ Blank \in NestedNames(last.req))
        => (last.status = 400 /\ db = last.pre)

\* C10 witness: a PATCH with a new title and a valid new tag name next to an
\* empty one was answered 400 on a recipe that has a tag.
C10_Witness ==
    /\ OwnUpdate /\ last.status = 400
    /\ last.req.tags = <<"b", Blank>>
    /\ last.req.hasTitle
    /\ \A x \in db.recipe : x.id = last.req.id => x.title # last.req.title
    /\ TagsOf(db, last.req.id) # {}
    /\ Named(db.tag, last.req.cred, {"b"}) = {}

\* C11: every tag and every ingredient attached to a recipe is owned by the
\* user who owns the recipe.
C11_AttachedRowsOwnedByRecipeOwner ==
    /\ \A l \in db.recipe_tags :
           \E x \in db.recipe, t \in db.tag :
               x.id = l[1] /\ t.id = l[2] /\ t.user = x.user
    /\ \A l \in db.recipe_ingredients :
           \E x \in db.recipe, g \in db.ingredient :
               x.id = l[1] /\ g.id = l[2] /\ g.user = x.user

\* C11 witness: two users each own a recipe with a tag of the same name, each
\* recipe attached to its owner's own row.
C11_Witness ==
    \E l \in db.recipe_tags, m \in db.recipe_tags :
        \E t \in db.tag, u \in db.tag :
            /\ t.id = l[2] /\ u.id = m[2]
            /\ t.name = u.name /\ t.user # u.user

NoDuplicates(seq) == \A i \in DOMAIN seq, j \in DOMAIN seq : i # j => seq[i] # seq[j]

\* The recipe matches a filter value: no value given, or linked to one of the ids.
MatchesFilter(linked, qs) ==
    qs = <<>> \/ linked \cap Range(_params_to_ints(qs)) # {}

\* C12: a recipe list with tags=<ids> (ingredients=<ids>) returns exactly the
\* caller's recipes linked to at least one of the ids, each recipe once.
C12_FilterByIds ==
    (/\ Handled /\ last.req.op = "recipe_list" /\ last.req.cred \in Accounts(last.pre)
     /\ params_are_ints(last.req.tagsParam)
     /\ params_are_ints(last.req.ingredientsParam))
        => /\ last.status = 200
           /\ NoDuplicates(last.body)
           /\ Range(last.body) =
                  {i \in Owned(db, "recipe", last.req.cred) :
                      /\ MatchesFilter(TagsOf(db, i), last.req.tagsParam)
                      /\ MatchesFilter(IngredientsOf(db, i), last.req.ingredientsParam)}

\* C12 witness: a list with tags=2,1 returned a recipe linked to both tags and
\* left out a recipe of the caller linked to neither.
C12_Witness ==
    /\ last.req.op = "recipe_list" /\ last.status = 200
    /\ last.req.tagsParam = <<"2", "1">> /\ last.req.ingredientsParam = <<>>
    /\ \E i \in Range(last.body) : {1, 2} \subseteq TagsOf(db, i)
    /\ \E x \in db.recipe : x.user = last.req.cred /\ x.id \notin Range(last.body)

AttachedIds(d, kind) == {l[2] : l \in d[LinksOf(kind)]}

\* C13: a tag or ingredient list with assigned_only=1 returns exactly the
\* caller's entities attached to at least one recipe, each once; with
\* assigned_only=0 or absent it returns all of the caller's entities.
C13_AssignedOnly ==
    (/\ Handled /\ last.req.op \in {"tag_list", "ingredient_list"}
     /\ last.req.cred \in Accounts(last.pre)
     /\ last.req.assigned_only \in {<<>>, <<"0">>, <<"1">>})
        => LET kind == TableOf(last.req.op)
               own  == Owned(db, kind, last.req.cred)
           IN  /\ last.status = 200
               /\ NoDuplicates(last.body)
               /\ Range(last.body) =
                      IF last.req.assigned_only = <<"1">>
                      THEN own \cap AttachedIds(db, kind)
                      ELSE own

\* C13 witness: a tag list with assigned_only=1 returned a tag attached to two
\* recipes and left out a tag of the caller attached to none.
C13_Witness ==
    /\ last.req.op = "tag_list" /\ last.status = 200
    /\ last.req.assigned_only = <<"1">>
    /\ \E t \in Range(last.body) :
           Cardinality({l \in db.recipe_tags : l[2] = t}) = 2
    /\ \E t \in db.tag : t.user = last.req.cred /\ t.id \notin Range(last.body)

\* ---------------------------------------------------------------- accounts: properties
ManagerOps == {"create_user", "create_superuser"}

\* An account was created: by POST /users or by a manager call.
Created ==
    /\ Handled
    /\ \/ last.req.op = "user_create" /\ last.status = 201
       \/ last.req.op \in ManagerOps /\ last.status = CallReturned

\* A POST /users/token request with these credentials.
TokenRequest(email, password) ==
    [Request("token_create", NoToken) EXCEPT
        !.hasEmail = TRUE, !.email = email, !.hasPassword = TRUE, !.password = password]

\* Raw passwords the requests and calls carry.
RawPasswords == {GoodPassword, WrongPassword, ShortPassword, None, ""}

\* Token issuance with this email succeeds with the password and with no other.
AuthenticatesWith(d, email, password) ==
    /\ CreateTokenView(d, TokenRequest(email, password)).status = 200
    /\ "token" \in DOMAIN CreateTokenView(d, TokenRequest(email, password)).body
    /\ \A other \in RawPasswords \ {password} :
           CreateTokenView(d, TokenRequest(email, other)).status = 400

\* A profile update that set a new password was answered 200.
PasswordChanged ==
    /\ Handled /\ last.req.op = "me_update" /\ last.status = 200
    /\ last.req.hasPassword

\* C14: after an account is created with (email, password), token issuance
\* with the same email and password succeeds and with any other password
\* fails; after a profile update changed the password the same holds with the
\* new password.
C14_CreateThenAuthenticate ==
    /\ (Handled /\ last.req.op = "user_create" /\ last.status = 201)
           => AuthenticatesWith(db, last.req.email, last.req.password)
    /\ PasswordChanged => AuthenticatesWith(db, last.body.email, last.req.password)

\* Upper-case characters with their lower-case form.
CasePairs == {<<"A", "a">>, <<"B", "b">>, <<"X", "x">>}

IsLowerOf(c, given) ==
    /\ c \notin {q[1] : q \in CasePairs}
    /\ c = given \/ <<given, c>> \in CasePairs

\* C15: on account creation the stored email is the given email with its
\* domain portion (what follows the last '@') lowercased and its local part
\* as given.
C15_EmailNormalized ==
    Created =>
        LET given  == last.req.email
            stored == last.body.email
            k      == rsplit_at(given)
        IN  /\ \E u \in db.user : u.email = stored
            /\ Len(stored) = Len(given)
            /\ \A i \in DOMAIN given :
                   IF k > 0 /\ i > k THEN IsLowerOf(stored[i], given[i])
                   ELSE stored[i] = given[i]

\* C15 witness: an account created with an upper-case local part and an
\* upper-case domain is stored with the local part as given and the domain
\* lowercased.
C15_Witness ==
    /\ Created
    /\ last.req.email = <<"A", "@", "X">>
    /\ last.body.email = <<"A", "@", "x">>

EmptyEmailCall == Handled /\ last.req.op \in ManagerOps /\ last.req.email = NoEmail

\* C16 as stated: create_user with an empty email, also through
\* create_superuser, fails with a ValidationError and persists no account.
C16_EmptyEmailValidationError ==
    EmptyEmailCall =>
        /\ last.status = CallRaised
        /\ last.body.raised = "ValidationError"
        /\ db = last.pre

\* C16 amended: create_user with an empty email, also through
\* create_superuser, raises ValueError for every password and every extra
\* field, and persists no account.
C16_EmptyEmailValueError ==
    EmptyEmailCall =>
        /\ last.status = CallRaised
        /\ last.body.raised = "ValueError"
        /\ db = last.pre

\* C16 witness: create_superuser with an empty email and valid flags raised
\* ValueError while another account exists.
C16_Witness ==
    /\ EmptyEmailCall /\ last.req.op = "create_superuser"
    /\ last.req.extra = [is_staff |-> "True", is_superuser |-> "True"]
    /\ last.status = CallRaised
    /\ db.user # {}

\* C17: an account-creation request whose email in normalized form is the
\* email of an existing account is answered 400 and creates no account; no
\* two accounts have the same email.
C17_DuplicateEmailRejected ==
    /\ (/\ Handled /\ last.req.op = "user_create"
        /\ normalize_email(last.req.email) \in Accounts(last.pre))
           => (last.status = 400 /\ db = last.pre)
    /\ \A u \in db.user, v \in db.user : u.email = v.email => u = v

ShortPasswordGiven == last.req.hasPassword /\ Len(last.req.password) < 5

\* C18 as stated: account creation with a password shorter than 5 characters
\* is answered 400 and no account with that email exists afterwards; a profile
\* update with such a password is rejected and changes nothing.
C18_ShortPasswordNoAccount ==
    /\ (Handled /\ last.req.op = "user_create" /\ ShortPasswordGiven)
           => /\ last.status = 400
              /\ last.req.email \notin Accounts(db)
    /\ (/\ Handled /\ last.req.op = "me_update" /\ last.req.cred \in Accounts(last.pre)
        /\ ShortPasswordGiven)
           => (last.status = 400 /\ db = last.pre)

\* C18 amended: account creation with a password shorter than 5 characters is
\* answered 400 and creates no account (the accounts are those there were
\* before); a profile update with such a password is answered 400 and leaves
\* the stored password and name unchanged.
C18_ShortPasswordRejected ==
    /\ (Handled /\ last.req.op = "user_create" /\ ShortPasswordGiven)
           => (last.status = 400 /\ db = last.pre)
    /\ (/\ Handled /\ last.req.op = "me_update" /\ last.req.cred \in Accounts(last.pre)
        /\ ShortPasswordGiven)
           => (last.status = 400 /\ db = last.pre)

\* C18 witness: a profile update with a new name and a short password was
\* answered 400 and the account keeps its name.
C18_Witness ==
    /\ Handled /\ last.req.op = "me_update" /\ ShortPasswordGiven
    /\ last.req.hasName /\ last.status = 400
    /\ \E u \in db.user : u.email = last.req.cred /\ u.name # last.req.name

\* The account the last request or call created or updated.
Subject(d) == CHOOSE u \in d.user : u.email = last.body.email

\* C19: the stored password is never a raw password; creation, superuser
\* creation and a profile update with a password store the hash of that
\* password; a profile update without a password keeps the stored hash and
\* applies the other fields; no response of the account endpoints contains
\* the password.
C19_PasswordHashed ==
    /\ \A u \in db.user : u.password \notin RawPasswords
    /\ (Created /\ last.req.password # None)
           => check_password(last.req.password, Subject(db).password)
    /\ PasswordChanged => check_password(last.req.password, Subject(db).password)
    /\ (/\ Handled /\ last.req.op = "me_update" /\ last.status = 200
        /\ ~last.req.hasPassword)
           => /\ Subject(db).password =
                     (CHOOSE u \in last.pre.user : u.email = last.req.cred).password
              /\ last.req.hasName => Subject(db).name = last.req.name
    /\ (/\ Handled
        /\ last.req.op \in {"user_create", "token_create", "me_retrieve", "me_update"}
        /\ last.status \in {200, 201})
           => "password" \notin DOMAIN last.body

\* C19 witness: a profile update with a new password was answered 200 and the
\* account now holds the hash of the new password in place of the old hash.
C19_Witness ==
    /\ PasswordChanged
    /\ check_password(last.req.password, Subject(db).password)
    /\ \E u \in last.pre.user :
           u.email = last.req.cred /\ u.password # Subject(db).password

ExplicitFlags(extra) == DOMAIN extra \cap {"is_staff", "is_superuser"}

\* C20: create_superuser returns an account with is_staff and is_superuser
\* true whenever it succeeds; with is_staff or is_superuser given as anything
\* other than True it fails and persists no account.
C20_SuperuserFlags ==
    (Handled /\ last.req.op = "create_superuser") =>
        /\ last.status = CallReturned
               => /\ last.body.is_staff /\ last.body.is_superuser
                  /\ last.body \in db.user
        /\ (\E f \in ExplicitFlags(last.req.extra) : last.req.extra[f] # "True")
               => (last.status = CallRaised /\ db = last.pre)

\* C20 witness: create_superuser with is_superuser given as False failed,
\* after an earlier call had created a superuser.
C20_Witness ==
    /\ Handled /\ last.req.op = "create_superuser"
    /\ last.req.extra = [is_superuser |-> "False"]
    /\ last.status = CallRaised /\ last.req.email # NoEmail
    /\ \E u \in db.user : u.is_staff /\ u.is_superuser

\* The request is an image upload by an account on a recipe it owns.
OwnUpload ==
    /\ Handled /\ last.req.op = "recipe_upload_image"
    /\ last.req.id \in Owned(last.pre, "recipe", last.req.cred)

ValidImageGiven == last.req.hasImage /\ last.req.image = "image"

\* C21: an upload to a caller-owned recipe of anything but a valid image, or
\* without the image field, is answered 400 and changes nothing; a valid
\* upload sets the image reference of that recipe and changes nothing else.
C21_UploadImage ==
    OwnUpload =>
        IF ValidImageGiven
        THEN /\ last.status = 200
             /\ db = [last.pre EXCEPT !.recipe =
                         {IF x.id = last.req.id THEN [x EXCEPT !.image = TRUE] ELSE x :
                            x \in @}]
        ELSE last.status = 400 /\ db = last.pre

AttrCreateOps == {"tag_create", "ingredient_create"}

KindOf(op) == IF op \in {"tag_create", "tag_update", "tag_destroy", "tag_list"}
              THEN "tag" ELSE "ingredient"

\* A POST on the tag or ingredient collection by an account.
AttrPost == Handled /\ last.req.op \in AttrCreateOps /\ last.req.cred \in Accounts(last.pre)

\* An update or delete by an account on a tag or ingredient it owns.
OwnAttrWrite ==
    /\ Handled /\ last.req.op \in AttrWriteOps
    /\ last.req.id \in Owned(last.pre, KindOf(last.req.op), last.req.cred)

\* GET on the collection answers; PATCH sets the name of the caller's row;
\* DELETE removes the caller's row.
AttrRoutesServed ==
    /\ (/\ Handled /\ last.req.op \in {"tag_list", "ingredient_list"}
        /\ last.req.cred \in Accounts(last.pre) /\ last.req.assigned_only = <<>>)
           => last.status = 200
    /\ (/\ OwnAttrWrite /\ last.req.op \in {"tag_update", "ingredient_update"}
        /\ last.req.partial /\ last.req.hasName /\ last.req.name # Blank)
           => /\ last.status = 200
              /\ \E x \in db[KindOf(last.req.op)] :
                     x.id = last.req.id /\ x.name = last.req.name
    /\ (OwnAttrWrite /\ last.req.op \in {"tag_destroy", "ingredient_destroy"})
           => /\ last.status = 204
              /\ last.req.id \notin {x.id : x \in db[KindOf(last.req.op)]}

\* C22 as stated: the tag and ingredient collections accept POST from an
\* authenticated caller and create a tag (ingredient) owned by the caller; they
\* accept GET, and the detail routes accept PATCH and DELETE.
C22_AttrCollectionAcceptsPost ==
    /\ AttrPost =>
           /\ last.status = 201
           /\ \E x \in db[KindOf(last.req.op)] \ last.pre[KindOf(last.req.op)] :
                  x.user = last.req.cred
    /\ AttrRoutesServed

\* C22 amended: the tag and ingredient collections accept GET; a POST from an
\* authenticated caller is answered 405 and creates nothing; the detail routes
\* accept PATCH and DELETE.
C22_AttrCollectionRefusesPost ==
    /\ AttrPost => (last.status = 405 /\ db = last.pre)
    /\ AttrRoutesServed

\* C22 witness: a POST on the tag collection by an account that has a tag was
\* answered 405.
C22_Witness ==
    /\ AttrPost /\ last.req.op = "tag_create" /\ last.status = 405
    /\ \E x \in db.tag : x.user = last.req.cred

\* A list request that was answered with a result.
Listed(op) == Handled /\ last.req.op = op /\ last.status = 200

NameOf(d, kind, id) == (CHOOSE x \in d[kind] : x.id = id).name

\* The ids of a list body come with the names of their rows never ascending.
NamesDescending(kind) ==
    \A i, j \in DOMAIN last.body :
        i < j => NameRank(NameOf(last.pre, kind, last.body[i]))
                    >= NameRank(NameOf(last.pre, kind, last.body[j]))

\* C23: the recipe list comes in reverse insertion order (descending id); the
\* tag and ingredient lists come in reverse alphabetical order by name, with
\* or without a filter parameter.
C23_ListOrder ==
    /\ Listed("recipe_list") =>
           \A i, j \in DOMAIN last.body : i < j => last.body[i] > last.body[j]
    /\ Listed("tag_list") => NamesDescending("tag")
    /\ Listed("ingredient_list") => NamesDescending("ingredient")

\* C23 witness: a tag list filtered by assigned_only returned two tags of
\* different names, the later-created one first.
C23_Witness ==
    /\ Listed("tag_list") /\ last.req.assigned_only = <<"1">>
    /\ Len(last.body) >= 2
    /\ last.body[1] > last.body[2]
    /\ NameOf(last.pre, "tag", last.body[1]) # NameOf(last.pre, "tag", last.body[2])

\* user.delete() was called on an account.
UserDeleted == Handled /\ last.req.op = "user_delete"

Survivors(table) == {x \in last.pre[table] : x.user # last.req.email}

Ids(rows) == {x.id : x \in rows}

\* C24: deleting a user deletes the recipes, tags and ingredients of that user
\* and of no other user; afterwards every row refers to an existing user and
\* every association to an existing recipe and an existing tag or ingredient.
C24_UserDeleteCascades ==
    UserDeleted =>
        /\ last.req.email \notin Accounts(db)
        /\ db.recipe = Survivors("recipe")
        /\ db.tag = Survivors("tag")
        /\ db.ingredient = Survivors("ingredient")
        /\ db.user = {u \in last.pre.user : u.email # last.req.email}
        /\ \A x \in db.recipe : x.user \in Accounts(db)
        /\ \A x \in db.tag : x.user \in Accounts(db)
        /\ \A x \in db.ingredient : x.user \in Accounts(db)
        /\ \A l \in db.recipe_tags : l[1] \in Ids(db.recipe) /\ l[2] \in Ids(db.tag)
        /\ \A l \in db.recipe_ingredients :
               l[1] \in Ids(db.recipe) /\ l[2] \in Ids(db.ingredient)
        /\ \A l \in last.pre.recipe_tags : l[1] \in Ids(db.recipe) => l \in db.recipe_tags
        /\ \A l \in last.pre.recipe_ingredients :
               l[1] \in Ids(db.recipe) => l \in db.recipe_ingredients

\* C24 witness: the deleted user had a recipe with a tag and an ingredient, and
\* another user's recipe with its tag is still there.
C24_Witness ==
    /\ UserDeleted
    /\ \E l \in last.pre.recipe_tags :
           l[1] \in Owned(last.pre, "recipe", last.req.email)
    /\ \E l \in last.pre.recipe_ingredients :
           l[1] \in Owned(last.pre, "recipe", last.req.email)
    /\ db.recipe # {} /\ db.recipe_tags # {}

\* Both workers have answered requests of one user that named the same tag
\* (ingredient), a name the user had no row of when either request came in.
BothResolved ==
    /\ \A p \in Workers : inflight[p].pc = "done" /\ inflight[p].fresh
    /\ \A p, q \in Workers :
           /\ inflight[p].user = inflight[q].user
           /\ inflight[p].kind = inflight[q].kind
           /\ inflight[p].name = inflight[q].name

\* C25: two concurrent requests of one user that resolve the same new tag
\* (ingredient) name leave exactly one row of that name, attached to both
\* recipes, whatever the interleaving of their lookups and inserts.
C25_ConcurrentResolveOneRow ==
    BothResolved =>
        LET one  == inflight[CHOOSE p \in Workers : TRUE]
            rows == QuerySet_get(db, one.kind, one.user, one.name)
        IN  /\ Cardinality(rows) = 1
            /\ \A p \in Workers, x \in rows :
                   <<inflight[p].recipe, x.id>> \in db[LinksOf(one.kind)]

\* The interleavings in which one request's lookup comes after the other's
\* insert: the second lookup finds the row.
LookupAfterInsertOneRow ==
    (BothResolved /\ \E p, q \in Workers : inflight[p].found = inflight[q].found /\ p # q)
        => C25_ConcurrentResolveOneRow

AttrDestroyOps == {"tag_destroy", "ingredient_destroy"}

\* A DELETE by an account on a tag or ingredient it owns.
OwnAttrDestroy == OwnAttrWrite /\ last.req.op \in AttrDestroyOps

OtherKind(kind) == IF kind = "tag" THEN "ingredient" ELSE "tag"

\* C26: deleting a tag (ingredient) through its endpoint takes it out of the
\* set of every recipe that had it and deletes no recipe; every other tag,
\* ingredient and association stays, and no recipe references the deleted row.
C26_AttrDestroyFrame ==
    OwnAttrDestroy =>
        LET kind == KindOf(last.req.op)
        IN  /\ last.status = 204
            /\ db.recipe = last.pre.recipe
            /\ db.user = last.pre.user
            /\ db[kind] = {x \in last.pre[kind] : x.id # last.req.id}
            /\ db[OtherKind(kind)] = last.pre[OtherKind(kind)]
            /\ db[LinksOf(kind)] = {l \in last.pre[LinksOf(kind)] : l[2] # last.req.id}
            /\ db[LinksOf(OtherKind(kind))] = last.pre[LinksOf(OtherKind(kind))]
            /\ \A l \in db[LinksOf(kind)] : l[2] # last.req.id

\* C26 witness: a tag attached to two recipes was deleted, and one of the
\* recipes keeps another tag.
C26_Witness ==
    /\ OwnAttrDestroy /\ last.req.op = "tag_destroy"
    /\ Cardinality({l \in last.pre.recipe_tags : l[2] = last.req.id}) = 2
    /\ db.recipe_tags # {}

\* A list request of an account whose tags or ingredients filter has an
\* element that is no integer, or whose assigned_only is no integer.
MalformedFilter ==
    /\ Handled /\ last.req.cred \in Accounts(last.pre)
    /\ \/ /\ last.req.op = "recipe_list"
          /\ ~(params_are_ints(last.req.tagsParam)
                 /\ params_are_ints(last.req.ingredientsParam))
       \/ /\ last.req.op \in {"tag_list", "ingredient_list"}
          /\ ~assigned_only_is_int(last.req.assigned_only)

\* C27: a list request with a malformed filter value (a non-integer or empty
\* element in tags or ingredients, a non-integer assigned_only) is answered
\* 400 and changes nothing.
C27_MalformedFilterRejected ==
    MalformedFilter => (last.status = 400 /\ db = last.pre)

\* What the handlers do with such a request: the ValueError of int() is not
\* caught, the answer is 500, and nothing is written.
MalformedFilterFails ==
    MalformedFilter => (last.status = 500 /\ db = last.pre)

====
